---- MODULE Spec2Model ----
(***************************************************************************)
(* Model of transformer.py: the queue callback with its bounded retry      *)
(* loop (callback), the transformation driver (transform_single_file) and  *)
(* the collaborators they call (tracking service, object store, failure    *)
(* exchange, queue channel).  Every external call is a step that either    *)
(* returns or raises.                                                      *)
(***************************************************************************)
EXTENDS Integers, Sequences, FiniteSets, TLC

\* transformer.py:53
MAX_RETRIES == 3

\* Number of task messages waiting in the queue at start-up.
MaxMessages == 2

VARIABLES
    main,           \* the process: position in __main__, its arguments, the compile step
    exhausted,      \* history: an earlier message used up its MAX_RETRIES attempts
    object_store,   \* module global: TRUE when an ObjectStoreManager is configured
    queue,          \* number of messages not yet delivered to callback
    output_file,    \* TRUE when a file exists at output_path of the current task
    run,            \* the last transformer run as transform_single_file saw it
    parse,          \* the last call of parse_output_logs: the log and what it computed
    cb,             \* frame of callback for the current message, with what it has emitted
    twin            \* the same callback, fed a missing-output failure wherever cb's
                    \* transformer run was judged failed for a non-zero status

vars == <<main, exhausted, object_store, queue, output_file, run, parse, cb, twin>>

----------------------------------------------------------------------------
\* Reasons and error texts

ReasonExit == "Error return from transformer"
ReasonMissing == "Output file was not found"
TransformerReasons == {ReasonExit, ReasonMissing}

\* One record per observable call of callback, in program order.
\* len: the length of the error text a status event carries; body: the body
\* of a published message.
NoBody == [json |-> [error |-> ""]]

Call(op, arg, try, error, key) ==
    [op |-> op, arg |-> arg, try |-> try, error |-> error, key |-> key,
     len |-> 0, body |-> NoBody]

NoKey == <<>>

\* callback line 216: routing_key = _request_id + '_errors'
RoutingKey(request_id) == <<request_id, "_errors">>

\* A path is the sequence of its characters; "eacute" stands for a character
\* outside ASCII.
FilePath(i) == IF i % 2 = 1 THEN <<"/", "d", "eacute", "/", "f">> ELSE <<"f">>

\* The task record carried by message number i.
Task(i) ==
    [request_id |-> "req", file_id |-> i, file_path |-> FilePath(i),
     service_endpoint |-> "endpoint", chunk_size |-> 1000]

IsAscii(ch) == ch # "eacute"

\* line 174: .encode('ascii', 'ignore') drops what is not ASCII
encode(s) == SelectSeq(s, IsAscii)

\* line 190: str.replace on single characters
replace(s, old, new) == [i \in 1..Len(s) |-> IF s[i] = old THEN new ELSE s[i]]

\* The lengths an error text may have, shorter and longer than the slice of line 235.
ErrorLengths == {40, 2000}

\* line 235: str(error)[0:1024], on the length of the text
Truncate(n) == IF n > 1024 THEN 1024 ELSE n

\* Faulty variant of NewFrame: the attempt count outlives the message.
NewFrameKeepsRetries(task) ==
    [pc |-> "start",
     transform_request |-> task,
     request_id |-> task.request_id,
     file_path |-> SelectSeq(task.file_path, LAMBDA ch : ch # "eacute"),
     file_id |-> task.file_id,
     file_done |-> FALSE,
     file_retries |-> cb.file_retries,
     error |-> "",
     error_len |-> 0,
     errors |-> <<>>,
     error_lens |-> <<>>,
     log |-> <<>>]

\* callback lines 172-178, 184-186: the frame at entry.
NewFrame(task) ==
    [pc |-> "start",
     transform_request |-> task,
     request_id |-> task.request_id,
     file_path |-> encode(task.file_path),
     file_id |-> task.file_id,
     file_done |-> FALSE,
     file_retries |-> 0,
     error |-> "",
     error_len |-> 0,
     errors |-> <<>>,
     error_lens |-> <<>>,
     log |-> <<>>]

IdleFrame ==
    [pc |-> "idle", transform_request |-> Task(0), request_id |-> "", file_path |-> <<>>,
     file_id |-> 0, file_done |-> FALSE, file_retries |-> 0, error |-> "", error_len |-> 0,
     errors |-> <<>>, error_lens |-> <<>>, log |-> <<>>]

NoRun == [exit_code |-> 0, tee |-> 0, r |-> 0, found |-> FALSE, marker_bad |-> FALSE,
          raised |-> FALSE, reason |-> "", attempt |-> 0]

----------------------------------------------------------------------------
\* callback, as operators on its frame

\* line 187 (loop test) and line 237 (the statement after the loop)
WhileTest(file_done) == IF file_done THEN "ack" ELSE "transform"

Emit(c, call) == [c EXCEPT !.log = Append(@, call)]

\* Faulty variants of ExceptHandler: a missing-output error that costs no retry,
\* a threshold one too high, a threshold one too low.
ExceptHandlerByReason(c, err) ==
    LET n == IF err = "Output file was not found" THEN c.file_retries
             ELSE c.file_retries + 1 IN
    [c EXCEPT !.file_retries = n, !.error = err, !.errors = Append(@, err),
              !.pc = IF n = MAX_RETRIES THEN "publish" ELSE "retry"]

ExceptHandlerLate(c, err) ==
    LET n == c.file_retries + 1 IN
    [c EXCEPT !.file_retries = n, !.error = err, !.errors = Append(@, err),
              !.pc = IF n = MAX_RETRIES + 1 THEN "publish" ELSE "retry"]

ExceptHandlerEarly(c, err) ==
    LET n == c.file_retries + 1 IN
    [c EXCEPT !.file_retries = n, !.error = err, !.errors = Append(@, err),
              !.pc = IF n = MAX_RETRIES - 1 THEN "publish" ELSE "retry"]

\* lines 211-214 and 231: an exception of the try body is caught, counted, and
\* either the dead-letter branch or the retry branch is entered.
ExceptHandler(c, err) ==
    LET n == c.file_retries + 1 IN
    [c EXCEPT !.file_retries = n, !.error = err, !.errors = Append(@, err),
              !.pc = IF n = MAX_RETRIES THEN "publish" ELSE "retry"]

\* line 211: 'except Exception as error' binds the exception, whose text
\* str(error) has length len.
Caught(c, err, len) ==
    [ExceptHandler(c, err) EXCEPT !.error_len = len, !.error_lens = Append(@, len)]

\* An exception raised outside the try body leaves callback: no handler, no ack.
Escape(c) == [c EXCEPT !.pc = "raised"]

----------------------------------------------------------------------------
\* parse_output_logs

\* Longest log given to parse_output_logs on its own.
MaxLines == 3

\* The records the transformer prints after the marker.  A record is a dict:
\* any of its fields may be missing.
Bodies ==
    {[file_path |-> "f", total_events |-> 2, total_bytes |-> 3, total_time |-> 1,
      status |-> "success"],
     [file_path |-> "f", total_events |-> 1, status |-> "failure"],
     [total_bytes |-> 5, status |-> "unknown"],
     [file_path |-> "f", total_time |-> 2]}

\* A line of log.txt, by what lines 96-101 do with it: marker ('---<' in line),
\* comma (line.split(',', 1) has a second part), json (the part, stripped, cut
\* by one character and with ' turned into ", decodes), body (the decoded dict).
TextLine == [marker |-> FALSE, comma |-> TRUE, json |-> FALSE, body |-> [file_path |-> ""]]
NoCommaLine == [marker |-> TRUE, comma |-> FALSE, json |-> FALSE, body |-> [file_path |-> ""]]
BadJsonLine == [marker |-> TRUE, comma |-> TRUE, json |-> FALSE, body |-> [file_path |-> ""]]
RecordLine(b) == [marker |-> TRUE, comma |-> TRUE, json |-> TRUE, body |-> b]

Lines == {TextLine, NoCommaLine, BadJsonLine} \cup {RecordLine(b) : b \in Bodies}

\* dict.get(key, default), lines 102-109
Get(body, key, default) == IF key \in DOMAIN body THEN body[key] ELSE default

NoTotals ==
    [raised |-> FALSE, error |-> "", total_events |-> 0, total_bytes |-> 0,
     successes |-> 0, total_files |-> 0, total_time |-> 0]

\* Faulty variant of Accumulate: every record counts as a success.
AccumulateAnyStatus(acc, body) ==
    [acc EXCEPT !.total_events = @ + Get(body, "total_events", 0),
                !.total_bytes = @ + Get(body, "total_bytes", 0),
                !.total_time = @ + Get(body, "total_time", 0),
                !.total_files = @ + 1,
                !.successes = @ + 1]

\* lines 102-111: one decoded record added to the running totals.
Accumulate(acc, body) ==
    LET events == Get(body, "total_events", 0)
        bytes_processed == Get(body, "total_bytes", 0)
        processing_time == Get(body, "total_time", 0)
        status == Get(body, "status", "unknown")
    IN [acc EXCEPT !.total_events = @ + events,
                   !.total_bytes = @ + bytes_processed,
                   !.total_time = @ + processing_time,
                   !.total_files = @ + 1,
                   !.successes = IF status \notin {"failure", "unknown"} THEN @ + 1 ELSE @]

\* lines 95-111: the loop over the lines; an exception of line 99 or 101 ends it.
RECURSIVE ParseLines(_, _, _)
ParseLines(lines, i, acc) ==
    IF i > Len(lines) THEN acc
    ELSE IF ~lines[i].marker THEN ParseLines(lines, i + 1, acc)
    ELSE IF ~lines[i].comma THEN [acc EXCEPT !.raised = TRUE, !.error = "IndexError"]
    ELSE IF ~lines[i].json THEN [acc EXCEPT !.raised = TRUE, !.error = "JSONDecodeError"]
    ELSE ParseLines(lines, i + 1, Accumulate(acc, lines[i].body))

\* lines 83-120: the totals it logs, or the exception that leaves it.
parse_output_logs(logfile) == ParseLines(logfile, 1, NoTotals)

NoParse == [log |-> <<>>, out |-> NoTotals, calls |-> 0]

----------------------------------------------------------------------------
\* transform_single_file

\* What one run of runner.sh can do.
RunLogs ==
    {<<TextLine, RecordLine([file_path |-> "f", total_events |-> 2, total_bytes |-> 3,
                             total_time |-> 1, status |-> "success"])>>,
     <<TextLine, NoCommaLine>>,
     <<BadJsonLine>>}

TransformerRuns ==
    [exit_code : {0, 1}, tee : {0, 1}, writes : BOOLEAN, log : RunLogs,
     error_len : ErrorLengths]

\* line 243: os.system('bash /generated/runner.sh ... | tee log.txt') returns the
\* wait status of the shell's pipeline, which is the status of its last command.
os_system(t) == 256 * t.tee

\* Faulty variant of transform_single_file: the output file is not looked for.
transform_single_file_nocheck(t, found, store, pipeline_ok) ==
    LET r == os_system(t) IN
    IF parse_output_logs(t.log).raised
    THEN [raised |-> TRUE, reason |-> "parse_output_logs", r |-> r, len |-> t.error_len]
    ELSE IF r # 0 THEN [raised |-> TRUE, reason |-> ReasonExit, r |-> r, len |-> t.error_len]
    ELSE IF ~store /\ ~pipeline_ok
         THEN [raised |-> TRUE, reason |-> "write_branches_to_arrow", r |-> r,
               len |-> t.error_len]
    ELSE [raised |-> FALSE, reason |-> "", r |-> r, len |-> 0]

\* lines 240-275: run, parse the log, judge the run, deliver to the streaming
\* sink when no object store is configured.
transform_single_file(t, found, store, pipeline_ok) ==
    LET r == os_system(t)
        reason_bad == IF r # 0 THEN ReasonExit
                      ELSE IF ~found THEN ReasonMissing
                      ELSE ""
    IN
    IF parse_output_logs(t.log).raised
    THEN [raised |-> TRUE, reason |-> "parse_output_logs", r |-> r, len |-> t.error_len]
    ELSE IF reason_bad # "" THEN [raised |-> TRUE, reason |-> reason_bad, r |-> r, len |-> t.error_len]
    ELSE IF ~store /\ ~pipeline_ok
         THEN [raised |-> TRUE, reason |-> "write_branches_to_arrow", r |-> r,
               len |-> t.error_len]
    ELSE [raised |-> FALSE, reason |-> "", r |-> r, len |-> 0]

\* Faulty variant of AfterTransform: the upload of line 197 is skipped.
AfterTransformNoUpload(c, res, store) ==
    LET c1 == Emit(c, Call("transform_single_file", "", c.file_retries + 1, "", NoKey)) IN
    IF res.raised THEN Caught(c1, res.reason, res.len)
    ELSE [c1 EXCEPT !.pc = "complete"]

\* lines 192-196: the call in the try body and where control goes after it.
AfterTransform(c, res, store) ==
    LET c1 == Emit(c, Call("transform_single_file", "", c.file_retries + 1, "", NoKey)) IN
    IF res.raised THEN Caught(c1, res.reason, res.len)
    ELSE [c1 EXCEPT !.pc = IF store THEN "upload" ELSE "complete"]

\* The twin's transformer run: a run judged failed for its non-zero status is
\* replaced by a run with status 0 whose output file is missing.
TwinRun(t, found) ==
    IF ~parse_output_logs(t.log).raised /\ os_system(t) # 0
    THEN [t |-> [t EXCEPT !.tee = 0], found |-> FALSE]
    ELSE [t |-> t, found |-> found]

----------------------------------------------------------------------------
\* The calls of callback when they return

\* lines 180-187
StatusStart(c) ==
    [Emit(c, Call("post_status_update", "start", 0, "", NoKey))
        EXCEPT !.pc = WhileTest(c.file_done)]

\* line 190
RootFile(c) == replace(c.file_path, "/", ":")

\* line 191
OutputPath(c) == <<"/home/atlas/">> \o RootFile(c)

\* Faulty variant of UploadFile: the object is named by the path as received.
UploadFileRawPath(c) ==
    [Emit(c, Call("upload_file", "", c.file_retries + 1, "", <<c.request_id>> \o c.file_path))
        EXCEPT !.pc = "remove"]

\* line 197: the object is stored in bucket _request_id under the name root_file.
UploadFile(c) ==
    [Emit(c, Call("upload_file", "", c.file_retries + 1, "", <<c.request_id>> \o RootFile(c)))
        EXCEPT !.pc = "remove"]

\* line 198
OsRemove(c) ==
    [Emit(c, Call("os.remove", "", c.file_retries + 1, "", OutputPath(c)))
        EXCEPT !.pc = "complete"]

\* lines 200-202
StatusComplete(c) ==
    [Emit(c, Call("post_status_update", "complete", 0, "", NoKey)) EXCEPT !.pc = "record"]

\* lines 204-209, then the loop test
FileCompleteSuccess(c) ==
    [Emit(c, Call("put_file_complete", "success", 0, "", NoKey))
        EXCEPT !.file_done = TRUE, !.pc = WhileTest(TRUE)]

\* lines 232-235, then the loop test
StatusRetry(c) ==
    [Emit(c, [Call("post_status_update", "retry", c.file_retries, c.error, NoKey)
                 EXCEPT !.len = Truncate(c.error_len)])
        EXCEPT !.pc = WhileTest(c.file_done)]

\* dict[key] = value
SetItem(d, key, value) ==
    [k \in DOMAIN d \cup {key} |-> IF k = key THEN value ELSE d[k]]

\* json.dumps: the text of the object, from which json.loads gives the dict back.
json_dumps(d) == [json |-> d]

\* The text of the caught exception with its length.
ErrorText(c) == [text |-> c.error, len |-> c.error_len]

\* Faulty variant of DeadLetter: the message carries the error of the first attempt.
DeadLetterFirstError(c) ==
    LET request == SetItem(c.transform_request, "error",
                           [text |-> c.errors[1], len |-> c.error_lens[1]]) IN
    [Emit(c, [Call("basic_publish", "transformation_failures", 0, c.error,
                   RoutingKey(c.request_id))
                 EXCEPT !.body = json_dumps(request)])
        EXCEPT !.transform_request = request, !.pc = "fail_record"]

\* lines 214-217
DeadLetter(c) ==
    LET request == SetItem(c.transform_request, "error", ErrorText(c)) IN
    [Emit(c, [Call("basic_publish", "transformation_failures", 0, c.error,
                   RoutingKey(c.request_id))
                 EXCEPT !.len = c.error_len, !.body = json_dumps(request)])
        EXCEPT !.transform_request = request, !.pc = "fail_record"]

\* lines 218-220
FileCompleteFailure(c) ==
    [Emit(c, Call("put_file_complete", "failure", 0, "", NoKey)) EXCEPT !.pc = "fail_status"]

\* lines 222-226, then the loop test
StatusFailure(c) ==
    [Emit(c, [Call("post_status_update", "failure", 0, c.error, NoKey)
                 EXCEPT !.len = c.error_len])
        EXCEPT !.file_done = TRUE, !.pc = WhileTest(TRUE)]

\* line 237
BasicAck(c) ==
    [Emit(c, Call("basic_ack", "", 0, "", NoKey)) EXCEPT !.pc = "returned"]

----------------------------------------------------------------------------
\* Specification

\* The twin takes the step cb takes as long as it is at the same statement.
Lock(new) == IF twin.pc = cb.pc THEN new ELSE twin

\* The command lines: the unsupported destination, the two sinks of the queue
\* consumer, and a single file given by --path.
Args ==
    {[result_destination |-> "kafka", output_dir |-> FALSE, path |-> FALSE],
     [result_destination |-> "object-store", output_dir |-> FALSE, path |-> FALSE],
     [result_destination |-> "object-store", output_dir |-> TRUE, path |-> FALSE],
     [result_destination |-> "object-store", output_dir |-> TRUE, path |-> TRUE]}

\* lines 302-304: the condition under which the object store is created
UsesObjectStore(args) == ~args.output_dir /\ args.result_destination = "object-store"

NoCompile == [exit_code |-> 0, tee |-> 0]

\* The process at line 290.
Started(args) == [pc |-> "args", args |-> args, compile |-> NoCompile, compiles |-> 0]

\* The queue consumer running after a start-up whose compile step exited 0.
Consuming(store) ==
    [pc |-> "consuming",
     args |-> CHOOSE a \in Args : ~a.path /\ a.result_destination # "kafka"
                                  /\ UsesObjectStore(a) = store,
     compile |-> NoCompile, compiles |-> 1]

Init ==
    /\ object_store \in BOOLEAN
    /\ main = Consuming(object_store)
    /\ exhausted = FALSE
    /\ queue = MaxMessages
    /\ output_file = FALSE
    /\ run = NoRun
    /\ parse = NoParse
    /\ cb = IdleFrame
    /\ twin = IdleFrame

\* The consumer hands the next message to callback (lines 171-186).  A file of
\* an earlier delivery of the same task may still be at output_path.
Deliver ==
    /\ main.pc = "consuming"
    /\ cb.pc \in {"idle", "returned"}
    /\ queue > 0
    /\ queue' = queue - 1
    /\ \E stale \in BOOLEAN : output_file' = stale
    /\ run' = NoRun
    /\ parse' = NoParse
    /\ cb' = NewFrame(Task(MaxMessages - queue + 1))
    /\ twin' = NewFrame(Task(MaxMessages - queue + 1))
    /\ UNCHANGED <<main, exhausted, object_store>>

PostStart ==
    /\ cb.pc = "start"
    /\ \E raises \in BOOLEAN :
        /\ cb' = IF raises THEN Escape(cb) ELSE StatusStart(cb)
        /\ twin' = Lock(IF raises THEN Escape(twin) ELSE StatusStart(twin))
    /\ UNCHANGED <<main, exhausted, object_store, queue, output_file, run, parse>>

Transform ==
    /\ cb.pc = "transform"
    /\ \E t \in TransformerRuns, pipeline_ok \in BOOLEAN :
        LET found == output_file \/ t.writes
            res == transform_single_file(t, found, object_store, pipeline_ok)
            tw == TwinRun(t, found)
            tres == transform_single_file(tw.t, tw.found, object_store, pipeline_ok)
        IN  /\ object_store => pipeline_ok
            /\ output_file' = found
            /\ run' = [exit_code |-> t.exit_code, tee |-> t.tee, r |-> res.r, found |-> found,
                       marker_bad |-> parse_output_logs(t.log).raised, raised |-> res.raised,
                       reason |-> res.reason, attempt |-> cb.file_retries + 1]
            /\ parse' = [log |-> t.log, out |-> parse_output_logs(t.log),
                         calls |-> parse.calls + 1]
            /\ cb' = AfterTransform(cb, res, object_store)
            /\ twin' = Lock(AfterTransform(twin, tres, object_store))
    /\ UNCHANGED <<main, exhausted, object_store, queue>>

Upload ==
    /\ cb.pc = "upload"
    /\ \E raises \in BOOLEAN : \E len \in (IF raises THEN ErrorLengths ELSE {0}) :
        /\ cb' = IF raises THEN Caught(cb, "upload_file", len) ELSE UploadFile(cb)
        /\ twin' = Lock(IF raises THEN Caught(twin, "upload_file", len) ELSE UploadFile(twin))
    /\ UNCHANGED <<main, exhausted, object_store, queue, output_file, run, parse>>

Remove ==
    /\ cb.pc = "remove"
    /\ output_file' = FALSE
    /\ cb' = OsRemove(cb)
    /\ twin' = Lock(OsRemove(twin))
    /\ UNCHANGED <<main, exhausted, object_store, queue, run, parse>>

PostComplete ==
    /\ cb.pc = "complete"
    /\ \E raises \in BOOLEAN : \E len \in (IF raises THEN ErrorLengths ELSE {0}) :
        /\ cb' = IF raises THEN Caught(cb, "post_status_update", len) ELSE StatusComplete(cb)
        /\ twin' = Lock(IF raises THEN Caught(twin, "post_status_update", len) ELSE StatusComplete(twin))
    /\ UNCHANGED <<main, exhausted, object_store, queue, output_file, run, parse>>

PutFileCompleteSuccess ==
    /\ cb.pc = "record"
    /\ \E raises \in BOOLEAN : \E len \in (IF raises THEN ErrorLengths ELSE {0}) :
        /\ cb' = IF raises THEN Caught(cb, "put_file_complete", len) ELSE FileCompleteSuccess(cb)
        /\ twin' = Lock(IF raises THEN Caught(twin, "put_file_complete", len) ELSE FileCompleteSuccess(twin))
    /\ UNCHANGED <<main, exhausted, object_store, queue, output_file, run, parse>>

PostRetry ==
    /\ cb.pc = "retry"
    /\ \E raises \in BOOLEAN :
        /\ cb' = IF raises THEN Escape(cb) ELSE StatusRetry(cb)
        /\ twin' = Lock(IF raises THEN Escape(twin) ELSE StatusRetry(twin))
    /\ UNCHANGED <<main, exhausted, object_store, queue, output_file, run, parse>>

Publish ==
    /\ cb.pc = "publish"
    /\ \E raises \in BOOLEAN :
        /\ cb' = IF raises THEN Escape(cb) ELSE DeadLetter(cb)
        /\ twin' = Lock(IF raises THEN Escape(twin) ELSE DeadLetter(twin))
    /\ UNCHANGED <<main, exhausted, object_store, queue, output_file, run, parse>>

PutFileCompleteFailure ==
    /\ cb.pc = "fail_record"
    /\ \E raises \in BOOLEAN :
        /\ cb' = IF raises THEN Escape(cb) ELSE FileCompleteFailure(cb)
        /\ twin' = Lock(IF raises THEN Escape(twin) ELSE FileCompleteFailure(twin))
    /\ UNCHANGED <<main, exhausted, object_store, queue, output_file, run, parse>>

PostFailure ==
    /\ cb.pc = "fail_status"
    /\ \E raises \in BOOLEAN :
        /\ cb' = IF raises THEN Escape(cb) ELSE StatusFailure(cb)
        /\ twin' = Lock(IF raises THEN Escape(twin) ELSE StatusFailure(twin))
    /\ UNCHANGED <<main, exhausted, object_store, queue, output_file, run, parse>>

Ack ==
    /\ cb.pc = "ack"
    /\ cb' = BasicAck(cb)
    /\ twin' = Lock(BasicAck(twin))
    /\ exhausted' = (exhausted \/ cb.file_retries = MAX_RETRIES)
    /\ UNCHANGED <<main, object_store, queue, output_file, run, parse>>

Next ==
    \/ Deliver
    \/ PostStart
    \/ Transform
    \/ Upload
    \/ Remove
    \/ PostComplete
    \/ PutFileCompleteSuccess
    \/ PostRetry
    \/ Publish
    \/ PutFileCompleteFailure
    \/ PostFailure
    \/ Ack

Spec == Init /\ [][Next]_vars

----------------------------------------------------------------------------
\* The process from its start (__main__)

\* lines 278-287: the status tested is that of os.system
compile_code(c) == [raised |-> os_system(c) # 0, r |-> os_system(c)]

InitMain ==
    /\ main \in {Started(a) : a \in Args}
    /\ exhausted = FALSE
    /\ object_store = FALSE
    /\ queue = MaxMessages
    /\ output_file = FALSE
    /\ run = NoRun
    /\ parse = NoParse
    /\ cb = IdleFrame
    /\ twin = IdleFrame

\* lines 298-304
CheckDestination ==
    /\ main.pc = "args"
    /\ IF main.args.result_destination = "kafka"
       THEN /\ main' = [main EXCEPT !.pc = "exited"]
            /\ UNCHANGED object_store
       ELSE /\ main' = [main EXCEPT !.pc = "compile"]
            /\ object_store' = UsesObjectStore(main.args)
    /\ UNCHANGED <<exhausted, queue, output_file, run, parse, cb, twin>>

\* line 306
CompileCode ==
    /\ main.pc = "compile"
    /\ \E c \in [exit_code : {0, 1}, tee : {0, 1}] :
          main' = [main EXCEPT !.compile = c, !.compiles = @ + 1,
                               !.pc = IF compile_code(c).raised THEN "raised" ELSE "compiled"]
    /\ UNCHANGED <<exhausted, object_store, queue, output_file, run, parse, cb, twin>>

\* lines 309-312: the consumer is created and callback is registered
CreateConsumer ==
    /\ main.pc = "compiled"
    /\ ~main.args.path
    /\ main' = [main EXCEPT !.pc = "consuming"]
    /\ UNCHANGED <<exhausted, object_store, queue, output_file, run, parse, cb, twin>>

\* lines 314-317: transform_single_file is called with two of its three
\* required arguments, which raises TypeError before its first statement
SinglePath ==
    /\ main.pc = "compiled"
    /\ main.args.path
    /\ main' = [main EXCEPT !.pc = "raised"]
    /\ UNCHANGED <<exhausted, object_store, queue, output_file, run, parse, cb, twin>>

NextMain ==
    \/ CheckDestination
    \/ CompileCode
    \/ CreateConsumer
    \/ SinglePath
    \/ Next

SpecMain == InitMain /\ [][NextMain]_vars

\* parse_output_logs on its own, on every log of at most MaxLines lines.
RECURSIVE LogsUpTo(_)
LogsUpTo(n) ==
    IF n = 0 THEN {<<>>}
    ELSE LET shorter == LogsUpTo(n - 1) IN
         shorter \cup {Append(l, x) : l \in {s \in shorter : Len(s) = n - 1}, x \in Lines}

ParseLog ==
    /\ parse.calls = 0
    /\ \E log \in LogsUpTo(MaxLines) :
          parse' = [log |-> log, out |-> parse_output_logs(log), calls |-> 1]
    /\ UNCHANGED <<main, exhausted, object_store, queue, output_file, run, cb, twin>>

NextParse == ParseLog

SpecParse == Init /\ [][NextParse]_vars

----------------------------------------------------------------------------
\* What a frame has emitted

IsStatus(e) == e.op = "post_status_update"

\* The codes of the status events posted for the current file_id, in order.
Codes(c) ==
    LET s == SelectSeq(c.log, IsStatus) IN [i \in 1..Len(s) |-> s[i].arg]

Count(c, op, arg) ==
    Cardinality({i \in 1..Len(c.log) : c.log[i].op = op /\ c.log[i].arg = arg})

\* Invocations of transform_single_file for the current message.
Attempts(c) == Count(c, "transform_single_file", "")

Published(c) == Count(c, "basic_publish", "transformation_failures")

Acks(c) == Count(c, "basic_ack", "")

\* callback has ended: it returned after the acknowledgement, or an exception left it.
Ended(c) == c.pc \in {"returned", "raised"}

Succeeded(c) ==
    /\ Count(c, "post_status_update", "complete") = 1
    /\ Count(c, "put_file_complete", "success") = 1

DeadLettered(c) ==
    /\ Count(c, "post_status_update", "failure") = 1
    /\ Count(c, "put_file_complete", "failure") = 1

NoSuccessTrace(c) ==
    /\ Count(c, "post_status_update", "complete") = 0
    /\ Count(c, "put_file_complete", "success") = 0

NoFailureTrace(c) ==
    /\ Count(c, "post_status_update", "failure") = 0
    /\ Count(c, "put_file_complete", "failure") = 0

Retries(k) == [i \in 1..k |-> "retry"]

----------------------------------------------------------------------------
\* Claims

\* C1: every message handled by callback ends in exactly one terminal outcome,
\* Succeeded (one complete event, one "success" record) or DeadLettered (one
\* failure event, one "failure" record), never both and never neither,
\* whatever the collaborators return or raise.
C1_ExactlyOneTerminalOutcome ==
    Ended(cb) =>
        \/ Succeeded(cb) /\ NoFailureTrace(cb)
        \/ DeadLettered(cb) /\ NoSuccessTrace(cb)

\* C2: every delivered message is acknowledged exactly once, only after its
\* terminal state, and no execution of callback ends without the acknowledgement.
C2_AckedOnceAfterTerminal ==
    /\ \A i \in 1..Len(cb.log) :
          cb.log[i].op = "basic_ack" =>
              \E j \in 1..(i - 1) :
                  /\ cb.log[j].op = "post_status_update"
                  /\ cb.log[j].arg \in {"complete", "failure"}
    /\ Acks(cb) <= 1
    /\ Ended(cb) => Acks(cb) = 1

\* C3: transform_single_file is invoked at most MAX_RETRIES times per message.
C3_AtMostMaxRetriesAttempts == Attempts(cb) <= MAX_RETRIES

C3_Witness == cb.pc = "returned" /\ Attempts(cb) = MAX_RETRIES

\* C4: the status events of one file_id form start, retry*, then one of complete
\* or failure: start comes first and once, and nothing follows a complete or a
\* failure, also when a step after the complete status update fails.
C4_StatusOrder ==
    LET s == Codes(cb) IN
    \A i \in 1..Len(s) :
        /\ (i = 1) <=> (s[i] = "start")
        /\ s[i] \in {"complete", "failure"} => i = Len(s)

\* C5: a failure status event or a dead-letter publication occurs only when
\* exactly MAX_RETRIES attempts were made and every one of them failed.
C5_FailureOnlyAfterMaxRetries ==
    (Count(cb, "post_status_update", "failure") > 0 \/ Published(cb) > 0) =>
        /\ Attempts(cb) = MAX_RETRIES
        /\ Len(cb.errors) = MAX_RETRIES

C5_Witness ==
    Count(cb, "post_status_update", "failure") = 1 /\ Published(cb) = 1

\* C6: when the first k attempts fail and attempt k+1 succeeds, callback emits
\* exactly k retry events followed by exactly one complete event, no failure
\* event, no dead-letter message, and invokes the transformer k+1 times.
C6_KFailuresThenSuccess ==
    (cb.pc = "returned" /\ Count(cb, "put_file_complete", "success") > 0) =>
        /\ Codes(cb) = <<"start">> \o Retries(Len(cb.errors)) \o <<"complete">>
        /\ Published(cb) = 0
        /\ Attempts(cb) = Len(cb.errors) + 1

\* C7: when the transformer fails on three consecutive attempts, callback emits
\* two retry events, then one failure event, publishes one dead-letter message
\* with routing key <request_id>_errors, invokes the transformer three times
\* and emits no complete event.
C7_ThreeFailuresDeadLetter ==
    (/\ Ended(cb)
     /\ Len(cb.errors) = MAX_RETRIES
     /\ \A i \in 1..Len(cb.errors) : cb.errors[i] \in TransformerReasons) =>
        /\ Codes(cb) = <<"start", "retry", "retry", "failure">>
        /\ Published(cb) = 1
        /\ \A i \in 1..Len(cb.log) :
              cb.log[i].op = "basic_publish" => cb.log[i].key = RoutingKey(cb.request_id)
        /\ Attempts(cb) = MAX_RETRIES

\* C8: an attempt counts as successful only if the transformer returned exit
\* code 0 and the output file exists; every other combination is a failed
\* attempt whose reason names the failing condition.  Stated for the runs whose
\* log reached log.txt and parsed.
C8_SuccessOnlyIfExitZeroAndFile ==
    (run.attempt > 0 /\ ~run.marker_bad /\ run.tee = 0) =>
        /\ ~run.raised => (run.exit_code = 0 /\ run.found)
        /\ (run.exit_code # 0 \/ ~run.found) =>
              /\ run.raised
              /\ run.reason \in TransformerReasons
              /\ run.reason = ReasonExit => run.exit_code # 0
              /\ run.reason = ReasonMissing => ~run.found

\* C9 as stated: transform_single_file never raises for a non-zero exit code or
\* a missing output file, it returns a failed outcome.
C9_NeverRaises ==
    (run.attempt > 0 /\ ~run.marker_bad /\ (run.r # 0 \/ ~run.found)) => ~run.raised

\* C9 amended: for a non-zero status of the os.system call or a missing output
\* file transform_single_file raises (RuntimeError with the reason, unless
\* parsing the log raised first), and callback's except clause receives that
\* exception as the error of the attempt.
C9_RaisesOnFailure ==
    (run.attempt > 0 /\ (run.r # 0 \/ ~run.found)) =>
        /\ run.raised
        /\ ~run.marker_bad => run.reason \in TransformerReasons
        /\ Len(cb.errors) >= run.attempt
        /\ cb.errors[run.attempt] = run.reason

C9_Witness ==
    /\ run.attempt > 0 /\ run.r = 0 /\ ~run.found /\ run.raised
    /\ run.reason = ReasonMissing
    /\ cb.error = ReasonMissing

\* What the retry loop lets the outside see of one message.
Observable(c) ==
    [pc |-> c.pc,
     attempts |-> Attempts(c),
     codes |-> Codes(c),
     dead_letters |-> Published(c),
     acks |-> Acks(c)]

----------------------------------------------------------------------------
\* C11: a line of the transformer log that cannot be parsed, a marker line
\* whose record cannot be split or decoded included, is skipped: no attempt
\* fails because of it, so no retry is consumed by it and no task is
\* dead-lettered for it.
C11_MalformedLineNeverEscalated ==
    /\ run.reason # "parse_output_logs"
    /\ \A i \in 1..Len(cb.errors) : cb.errors[i] # "parse_output_logs"

----------------------------------------------------------------------------
\* C12: for a log whose marker lines all decode, N of them, parse_output_logs
\* computes total events, bytes and time as the sums of the fields of those N
\* records (a missing field counts 0), files seen = N, files succeeded = the
\* records whose status is present and neither failure nor unknown; with no
\* marker line every total is 0.
WellFormed(log) == \A i \in DOMAIN log : log[i].marker => log[i].comma /\ log[i].json

MarkerLines(log) == {i \in DOMAIN log : log[i].marker}

RECURSIVE SumOf(_, _, _)
SumOf(log, S, key) ==
    IF S = {} THEN 0
    ELSE LET i == CHOOSE j \in S : TRUE IN
         (IF key \in DOMAIN log[i].body THEN log[i].body[key] ELSE 0)
             + SumOf(log, S \ {i}, key)

C12_TotalsOverWellFormedRecords ==
    (parse.calls = 1 /\ WellFormed(parse.log)) =>
        LET N == MarkerLines(parse.log)
            ok == {i \in N : /\ "status" \in DOMAIN parse.log[i].body
                             /\ parse.log[i].body["status"] \notin {"failure", "unknown"}}
        IN /\ ~parse.out.raised
           /\ parse.out.total_events = SumOf(parse.log, N, "total_events")
           /\ parse.out.total_bytes = SumOf(parse.log, N, "total_bytes")
           /\ parse.out.total_time = SumOf(parse.log, N, "total_time")
           /\ parse.out.total_files = Cardinality(N)
           /\ parse.out.successes = Cardinality(ok)
           /\ N = {} => /\ parse.out.total_events = 0 /\ parse.out.total_bytes = 0
                        /\ parse.out.total_time = 0 /\ parse.out.total_files = 0
                        /\ parse.out.successes = 0

C12_Witness ==
    /\ parse.calls = 1
    /\ WellFormed(parse.log)
    /\ Len(parse.log) = 3
    /\ \E i \in DOMAIN parse.log : ~parse.log[i].marker
    /\ parse.out.total_files = 2
    /\ parse.out.successes = 1
    /\ parse.out.total_events = 3
    /\ parse.out.total_bytes = 3

----------------------------------------------------------------------------
\* C13: no error of an attempt escapes callback: each one is caught in the
\* loop and answered by a retry event or by the dead-letter message, and
\* callback returns normally.
C13_AttemptErrorsNeverEscape ==
    /\ Len(cb.errors) > 0 => cb.pc # "raised"
    /\ Ended(cb) =>
          Count(cb, "post_status_update", "retry") + Published(cb) = Len(cb.errors)

----------------------------------------------------------------------------
\* C14: with the object store configured, an attempt that succeeds uploads
\* the output file once, in bucket request_id under the file path with '/'
\* replaced by ':', and then deletes the local file; the file is deleted only
\* right after the upload of the same attempt returned, never in an attempt
\* whose upload failed.
EntriesOf(c, op, try) == {i \in 1..Len(c.log) : c.log[i].op = op /\ c.log[i].try = try}

IsObjectName(name, path) ==
    /\ Len(name) = Len(path)
    /\ \A k \in 1..Len(path) : name[k] = IF path[k] = "/" THEN ":" ELSE path[k]

C14_UploadOnceThenDelete ==
    object_store =>
        /\ \A i \in 1..Len(cb.log) :
              /\ cb.log[i].op = "upload_file" =>
                    /\ Head(cb.log[i].key) = cb.request_id
                    /\ IsObjectName(Tail(cb.log[i].key), cb.file_path)
              /\ cb.log[i].op = "os.remove" =>
                    /\ i > 1
                    /\ cb.log[i - 1].op = "upload_file"
                    /\ cb.log[i - 1].try = cb.log[i].try
                    /\ Head(cb.log[i].key) = "/home/atlas/"
                    /\ Tail(cb.log[i].key) = Tail(cb.log[i - 1].key)
              /\ (cb.log[i].op = "post_status_update" /\ cb.log[i].arg = "complete") =>
                    /\ i > 2
                    /\ cb.log[i - 1].op = "os.remove"
                    /\ Cardinality(EntriesOf(cb, "upload_file", cb.log[i - 1].try)) = 1
                    /\ Cardinality(EntriesOf(cb, "os.remove", cb.log[i - 1].try)) = 1
        /\ \A n \in 1..Len(cb.errors) :
              cb.errors[n] = "upload_file" => EntriesOf(cb, "os.remove", n) = {}
        /\ cb.pc = "remove" => output_file

C14_Witness ==
    /\ object_store
    /\ cb.pc = "returned"
    /\ Succeeded(cb)
    /\ cb.errors = <<"upload_file">>
    /\ \E k \in 1..Len(cb.file_path) : cb.file_path[k] = "/"
    /\ ~output_file

----------------------------------------------------------------------------
\* C15: the complete event and the "success" record are emitted only after,
\* in the same attempt, transform_single_file returned (transformer judged
\* good, streaming delivery done) and, with the object store, the upload
\* returned; a failed delivery is caught as the failure of that attempt, its
\* reason is what the retry event or the dead-letter message reports, and
\* that attempt emits no complete event.
DeliveryErrors == {"upload_file", "write_branches_to_arrow"}

\* The attempt during which entry i of the log was written.
AttemptAt(c, i) ==
    Cardinality({j \in 1..i : c.log[j].op = "transform_single_file"})

----------------------------------------------------------------------------
\* C16: the compile step runs once, before any task is processed; when it
\* fails, or when the result destination is kafka, the process ends before a
\* queue consumer exists and before any transformer run.
TaskWorkBegun == main.pc = "consuming" \/ cb.pc # "idle" \/ run.attempt > 0

C16_CompileOnceOrAbort ==
    /\ main.compiles <= 1
    /\ TaskWorkBegun => main.compiles = 1
    /\ (main.compiles = 1 /\ main.compile.exit_code # 0) => ~TaskWorkBegun
    /\ main.args.result_destination = "kafka" =>
          /\ main.pc \in {"args", "exited"}
          /\ main.compiles = 0
          /\ ~TaskWorkBegun

----------------------------------------------------------------------------
\* C17: after the n-th failed attempt, n < MAX_RETRIES, callback emits exactly
\* one retry event carrying the attempt number n and the error text cut to
\* at most 1024 characters, and then starts another attempt; the
\* MAX_RETRIES-th failure gets no retry event.
RetryEvents(c, n) ==
    {i \in 1..Len(c.log) : /\ c.log[i].op = "post_status_update"
                           /\ c.log[i].arg = "retry"
                           /\ c.log[i].try = n}

C17_OneRetryEventPerFailure ==
    \A n \in 1..Len(cb.errors) :
        IF n < MAX_RETRIES
        THEN (n < Len(cb.errors) \/ cb.pc # "retry") =>
                /\ Cardinality(RetryEvents(cb, n)) = 1
                /\ \A i \in RetryEvents(cb, n) :
                      /\ cb.log[i].error = cb.errors[n]
                      /\ cb.log[i].len <= 1024
                      /\ cb.log[i].len = IF cb.error_lens[n] > 1024 THEN 1024
                                         ELSE cb.error_lens[n]
                /\ Attempts(cb) > n \/ cb.pc = "transform"
        ELSE RetryEvents(cb, n) = {}

----------------------------------------------------------------------------
\* C18: the dead-letter message holds every field of the task record as it
\* was received, plus the field error with the whole error text of the last,
\* MAX_RETRIES-th, failed attempt; it is published before the failure
\* record, the failure event and the acknowledgement.
AfterFailureOps(e) ==
    \/ e.op = "put_file_complete" /\ e.arg = "failure"
    \/ e.op = "post_status_update" /\ e.arg = "failure"

C18_DeadLetterMessage ==
    /\ \A i \in 1..Len(cb.log) :
          cb.log[i].op = "basic_publish" =>
              LET original == Task(cb.file_id)
                  message == cb.log[i].body.json
              IN /\ DOMAIN message = DOMAIN original \cup {"error"}
                 /\ \A f \in DOMAIN original : message[f] = original[f]
                 /\ Len(cb.errors) = MAX_RETRIES
                 /\ message["error"].text = cb.errors[MAX_RETRIES]
                 /\ message["error"].len = cb.error_lens[MAX_RETRIES]
                 /\ cb.log[i].key = <<cb.request_id, "_errors">>
                 /\ \A j \in 1..i :
                       ~AfterFailureOps(cb.log[j]) /\ cb.log[j].op # "basic_ack"
    /\ \A j \in 1..Len(cb.log) :
          AfterFailureOps(cb.log[j]) =>
              \E i \in 1..(j - 1) : cb.log[i].op = "basic_publish"

C18_Witness ==
    /\ cb.pc = "returned"
    /\ DeadLettered(cb)
    /\ Published(cb) = 1
    /\ cb.errors[1] # cb.errors[MAX_RETRIES]
    /\ cb.error_lens[2] # cb.error_lens[MAX_RETRIES]
    /\ cb.error_lens[MAX_RETRIES] > 1024
    /\ cb.transform_request.file_path # cb.file_path

----------------------------------------------------------------------------
\* C19: the retry state belongs to one message: every message starts with
\* attempt count 0, the count is the number of failures of that message
\* alone, and a message is dead-lettered only after MAX_RETRIES attempts of
\* its own, whatever happened to the messages before it.
C19_RetryStatePerMessage ==
    /\ cb.pc = "start" => cb.file_retries = 0
    /\ cb.file_retries = Len(cb.errors)
    /\ cb.pc = "retry" => Attempts(cb) = cb.file_retries /\ cb.file_retries < MAX_RETRIES
    /\ cb.pc \in {"publish", "fail_record", "fail_status"} => Attempts(cb) = MAX_RETRIES
    /\ Published(cb) > 0 => Attempts(cb) = MAX_RETRIES

C19_Witness ==
    /\ exhausted
    /\ cb.file_id > 1
    /\ cb.pc = "returned"
    /\ Attempts(cb) = MAX_RETRIES
    /\ Succeeded(cb)

----------------------------------------------------------------------------
\* C20: the processing of a message terminates at the acknowledgement: every
\* external call returning or raising, the loop is left after at most
\* MAX_RETRIES attempts, and callback comes to rest nowhere but after
\* basic_ack.
AtRest(c) == c.pc \notin {"start", "transform", "upload", "remove", "complete", "record",
                          "retry", "publish", "fail_record", "fail_status", "ack"}

C20_TerminatesAtAck ==
    /\ cb.file_retries <= MAX_RETRIES
    /\ Attempts(cb) <= cb.file_retries + 1
    /\ AtRest(cb) => cb.pc \in {"idle", "returned"}

====
